---- MODULE Spec2Model ----
(***************************************************************************)
(* State-machine model of the CampusERP front-end mock (src/app.jsx): the  *)
(* in-memory student roster of the ERPApp component, the admission form,   *)
(* the selection used by the hostel and finance panels, the search query   *)
(* and the event handlers that change them.                                *)
(*                                                                         *)
(* Representation of JavaScript values                                     *)
(*   - a string is the sequence of its characters (<<"A","b">> is "Ab"),   *)
(*     so that join, toLowerCase, includes and Number are computed;        *)
(*   - null is the value Null, a sequence that is no string of the         *)
(*     alphabet; the hostel label of a record is a string or null;         *)
(*   - a number is an integer (the model draws whole amounts only).        *)
(*                                                                         *)
(* Steps                                                                   *)
(*   One action per event handler, guarded by the conditions under which   *)
(*   its button or input is rendered (the active tab, the role, the        *)
(*   selection, the row being in `filtered`). handleAdmit and the Pay      *)
(*   handler have one action for each of their two outcomes. The two       *)
(*   roster operations that take arguments, handlePayFees and              *)
(*   toggleHostel, can also be called with any arguments (CallPayFees,     *)
(*   CallToggleHostel), which is how an id that no record has gets to      *)
(*   them. uid() and the clock are choices of the environment.             *)
(*                                                                         *)
(* The derived metrics of the dashboard are operators of the roster, and   *)
(* the object that occupancyByHostel is folded into keeps what a plain     *)
(* JavaScript object inherits from Object.prototype.                       *)
(*                                                                         *)
(* History variables (last, pair, credited, nPays) record what the         *)
(* handlers did; no handler reads them.                                    *)
(***************************************************************************)
EXTENDS Integers, Sequences, FiniteSets, TLC

VARIABLES
    students,           \* useState(initialStudents), app.jsx:62
    form,               \* admission form state, app.jsx:67
    selectedStudentId,  \* app.jsx:70
    query,              \* search box, app.jsx:63
    role,               \* app.jsx:61
    activeTab,          \* app.jsx:64
    clock,              \* the environment's clock read by today()
    last,               \* history: the roster handler that ran last, its
                        \* arguments, the alert it raised and the roster it
                        \* found
    pair,               \* history: whether the last two roster handlers were
                        \* the same toggleHostel call and, if so, the roster
                        \* before the first of the two
    credited,           \* history: per roster position, the sum of the amounts
                        \* handlePayFees was called with for that record's id
    nPays               \* history: number of handlePayFees calls so far

vars == <<students, form, selectedStudentId, query, role, activeTab, clock,
          last, pair, credited, nPays>>

-----------------------------------------------------------------------------
(* Bounds of the model *)

MaxAdmits == 1      \* successful admissions explored
MaxPays == 2        \* handlePayFees calls explored

-----------------------------------------------------------------------------
(* JavaScript values *)

Null == << "<null>" >>

\* !v for the values the handlers test: null and the empty string are falsy,
\* every other string (also "0" and " ") is truthy.
Falsy(v) == v = Null \/ v = << >>

Truthy(v) == ~Falsy(v)

\* a || b
OrElse(a, b) == IF Truthy(a) THEN a ELSE b

UpperCase == <<"A","B","C","D","E","F","G","H","I","J","K","L","M",
               "N","O","P","Q","R","S","T","U","V","W","X","Y","Z">>

LowerCase == <<"a","b","c","d","e","f","g","h","i","j","k","l","m",
               "n","o","p","q","r","s","t","u","v","w","x","y","z">>

\* String.prototype.toLowerCase on one character, then on a string.
LowerChar(c) ==
    IF \E k \in 1..26 : UpperCase[k] = c
    THEN LowerCase[CHOOSE k \in 1..26 : UpperCase[k] = c]
    ELSE c

toLowerCase(s) == [k \in 1..Len(s) |-> LowerChar(s[k])]

RECURSIVE IncludesFrom(_, _, _)
\* the scan of String.prototype.includes: does needle occur in hay at or
\* after position k?
IncludesFrom(hay, needle, k) ==
    IF k + Len(needle) - 1 > Len(hay) THEN FALSE
    ELSE IF SubSeq(hay, k, k + Len(needle) - 1) = needle THEN TRUE
    ELSE IncludesFrom(hay, needle, k + 1)

includes(hay, needle) == IncludesFrom(hay, needle, 1)

RECURSIVE join(_, _)
\* Array.prototype.join(sep) on an array of strings
join(parts, sep) ==
    IF Len(parts) = 0 THEN << >>
    ELSE IF Len(parts) = 1 THEN parts[1]
    ELSE parts[1] \o sep \o join(Tail(parts), sep)

Digits == <<"0","1","2","3","4","5","6","7","8","9">>

DigitValue(c) == (CHOOSE k \in 1..10 : Digits[k] = c) - 1

RECURSIVE DecimalValue(_)
DecimalValue(s) ==
    IF Len(s) = 0 THEN 0
    ELSE 10 * DecimalValue(SubSeq(s, 1, Len(s) - 1)) + DigitValue(s[Len(s)])

\* Number(v) for the value of a numeric input: "" is 0, an optional "-" and
\* decimal digits otherwise (an <input type="number"> hands out nothing else).
\* A number argument is written as its decimal string, which Number maps to
\* the same number.
Number(v) ==
    IF Len(v) = 0 THEN 0
    ELSE IF v[1] = "-" THEN 0 - DecimalValue(Tail(v))
    ELSE DecimalValue(v)

-----------------------------------------------------------------------------
(* Text used by the model *)

AishaVerma == <<"A","i","s","h","a"," ","V","e","r","m","a">>
ComputerEngg == <<"C","o","m","p","u","t","e","r"," ","E","n","g","g">>
RohitSharma == <<"R","o","h","i","t"," ","S","h","a","r","m","a">>
Electronics == <<"E","l","e","c","t","r","o","n","i","c","s">>
MayaNair == <<"M","a","y","a"," ","N","a","i","r">>
Mechanical == <<"M","e","c","h","a","n","i","c","a","l">>
ZaraKhan == <<"Z","a","r","a"," ","K","h","a","n">>
Civil == <<"C","i","v","i","l">>

HostelA == <<"A">>
HostelB == <<"B">>
HostelC == <<"C">>

\* Values uid() can return: Math.random() = 0 gives "0" in base 36, whose
\* slice(2, 9) is ""; 0.5 gives "0.i", hence "I"; most draws give seven
\* characters. Nothing makes two draws differ.
UidValues == { << >>, <<"I">>, <<"K","7","Q","X","2","M","1">> }

\* today(): new Date().toISOString().slice(0, 10), the UTC date of the day
\* the clock is in; the model's clock runs over these days
Dates == <<"2025-06-16", "2025-06-17">>

today == Dates[clock + 1]

\* initialStudents, with the three uid() draws made at module load
initialStudents(i1, i2, i3) ==
    << [id |-> i1, name |-> AishaVerma, branch |-> ComputerEngg, year |-> 1,
        hostel |-> HostelA, feesPaid |-> 15000, admissionDate |-> "2025-06-15"],
       [id |-> i2, name |-> RohitSharma, branch |-> Electronics, year |-> 2,
        hostel |-> HostelB, feesPaid |-> 20000, admissionDate |-> "2024-08-21"],
       [id |-> i3, name |-> MayaNair, branch |-> Mechanical, year |-> 3,
        hostel |-> Null, feesPaid |-> 0, admissionDate |-> "2023-07-01"] >>

InitialCount == 3

emptyForm ==
    [name |-> << >>, branch |-> << >>, year |-> 1, hostel |-> << >>, feesPaid |-> 0]

Unknown == <<"u","n","k","n","o","w","n">>   \* no uid() result: it is lower case

\* the argument a caller leaves out
Undefined == << "<undefined>" >>

-----------------------------------------------------------------------------
(* The state updaters of the handlers, as functions of the previous roster *)

\* { id: uid(), ...form, admissionDate: today() }
newStudent(id, f, date) ==
    [id |-> id, name |-> f.name, branch |-> f.branch, year |-> f.year,
     hostel |-> f.hostel, feesPaid |-> f.feesPaid, admissionDate |-> date]

\* a check that forgets the branch
admitRejectedNameOnly(f) == Falsy(f.name)

\* if (!form.name || !form.branch) return alert(...)
admitRejected(f) == Falsy(f.name) \/ Falsy(f.branch)

\* an updater that appends: prev => [...prev, newStudent]
admitUpdaterAppend(prev, s) == prev \o <<s>>

\* prev => [newStudent, ...prev]
admitUpdater(prev, s) == <<s>> \o prev

\* a handlePayFees without the test of the id
handlePayFeesEveryone(prev, studentId, amount) ==
    [k \in 1..Len(prev) |->
        [prev[k] EXCEPT !.feesPaid = prev[k].feesPaid + Number(amount)]]

\* a handlePayFees that stores the amount instead of adding it
handlePayFeesOverwrite(prev, studentId, amount) ==
    [k \in 1..Len(prev) |->
        IF prev[k].id = studentId
        THEN [prev[k] EXCEPT !.feesPaid = Number(amount)]
        ELSE prev[k]]

\* prev.map(s => s.id === studentId
\*     ? { ...s, feesPaid: Number(s.feesPaid || 0) + Number(amount) } : s)
\* feesPaid is a number in every record, so Number(s.feesPaid || 0) is it.
handlePayFees(prev, studentId, amount) ==
    [k \in 1..Len(prev) |->
        IF prev[k].id = studentId
        THEN [prev[k] EXCEPT !.feesPaid = prev[k].feesPaid + Number(amount)]
        ELSE prev[k]]

\* function toggleHostel(studentId, hostelName = 'A')
hostelNameOf(arg) == IF arg = Undefined THEN HostelA ELSE arg

\* a toggleHostel that never releases
toggleHostelNeverReleases(prev, studentId, hostelName) ==
    [k \in 1..Len(prev) |->
        IF prev[k].id = studentId
        THEN [prev[k] EXCEPT !.hostel = hostelName]
        ELSE prev[k]]

\* a toggleHostel that releases whatever label the record holds:
\* s.hostel ? null : hostelName
toggleHostelByPresence(prev, studentId, hostelName) ==
    [k \in 1..Len(prev) |->
        IF prev[k].id = studentId
        THEN [prev[k] EXCEPT !.hostel =
                 IF Truthy(prev[k].hostel) THEN Null ELSE hostelName]
        ELSE prev[k]]

\* prev.map(s => s.id === studentId
\*     ? { ...s, hostel: s.hostel === hostelName ? null : hostelName } : s)
toggleHostel(prev, studentId, hostelName) ==
    [k \in 1..Len(prev) |->
        IF prev[k].id = studentId
        THEN [prev[k] EXCEPT !.hostel =
                 IF prev[k].hostel = hostelName THEN Null ELSE hostelName]
        ELSE prev[k]]

\* a predicate that lower-cases the record and not the query
matchesQueryAsTyped(s, q) ==
    includes(toLowerCase(join(<<s.name, s.branch, s.id>>, <<" ">>)), q)

\* s => [s.name, s.branch, s.id].join(' ').toLowerCase()
\*          .includes(query.toLowerCase())
matches(s, q) ==
    includes(toLowerCase(join(<<s.name, s.branch, s.id>>, <<" ">>)),
             toLowerCase(q))

RECURSIVE filter(_, _)
\* Array.prototype.filter with the predicate of `filtered`
filter(list, q) ==
    IF Len(list) = 0 THEN << >>
    ELSE IF matches(Head(list), q)
         THEN <<Head(list)>> \o filter(Tail(list), q)
         ELSE filter(Tail(list), q)

\* const filtered = students.filter(...)
filtered == filter(students, query)

\* students.find(s => s.id === id): the position of the first such record,
\* 0 for undefined
find(list, id) ==
    IF \E k \in 1..Len(list) : list[k].id = id
    THEN CHOOSE k \in 1..Len(list) :
            list[k].id = id /\ \A j \in 1..(k - 1) : list[j].id # id
    ELSE 0

-----------------------------------------------------------------------------
(* Derived metrics: useMemo(() => { ... }, [students]), recomputed from the *)
(* roster of every render                                                  *)

\* A value held by the accumulator object of occupancyByHostel: a number, or
\* the string that + 1 makes of a value that is not a number.
NumberValue(n) == [kind |-> "number", n |-> n, s |-> << >>]
StringValue(s) == [kind |-> "string", n |-> 0, s |-> s]

Constructor == <<"c","o","n","s","t","r","u","c","t","o","r">>
Proto == <<"_","_","p","r","o","t","o","_","_">>

\* What the accumulator {} inherits from Object.prototype under the names
\* the model draws, as the string each value gives when 1 is added to it:
\* constructor is the function Object, __proto__ is Object.prototype.
ObjectPrototype ==
    [k \in { Constructor, Proto } |->
        IF k = Constructor
        THEN <<"f","u","n","c","t","i","o","n"," ","O","b","j","e","c","t",
               "(",")"," ","{"," ","[","n","a","t","i","v","e"," ","c","o",
               "d","e","]"," ","}">>
        ELSE <<"[","o","b","j","e","c","t"," ","O","b","j","e","c","t","]">>]

\* (acc[key] || 0) + 1: an own property first, an inherited one next, and
\* undefined otherwise. A count is a number, at least 1 where there is one;
\* a function, an object and a string are truthy and + 1 appends "1" to
\* their text.
plusOne(acc, key) ==
    IF key \in DOMAIN acc
    THEN IF acc[key].kind = "number"
         THEN NumberValue(acc[key].n + 1)
         ELSE StringValue(acc[key].s \o <<"1">>)
    ELSE IF key \in DOMAIN ObjectPrototype
         THEN StringValue(ObjectPrototype[key] \o <<"1">>)
         ELSE NumberValue(1)

\* acc[key] = value: an own property of acc, except under the name __proto__,
\* whose setter ignores a value that is neither an object nor null
assign(acc, key, value) ==
    IF key = Proto THEN acc
    ELSE [k \in DOMAIN acc \cup { key } |-> IF k = key THEN value ELSE acc[k]]

\* students.reduce((acc, s) => {
\*     if (s.hostel) acc[s.hostel] = (acc[s.hostel] || 0) + 1; return acc; }, {})
\* as the fold it is, over the first n records
RECURSIVE occupancyFold(_, _)
occupancyFold(list, n) ==
    IF n = 0 THEN << >>
    ELSE LET acc == occupancyFold(list, n - 1)
             s == list[n]
         IN  IF Truthy(s.hostel)
             THEN assign(acc, s.hostel, plusOne(acc, s.hostel))
             ELSE acc

\* students.reduce((s, x) => s + Number(x.feesPaid || 0), 0) over the first n
\* records; feesPaid is a number in every record, so Number(x.feesPaid || 0)
\* is it
RECURSIVE feesFold(_, _)
feesFold(list, n) ==
    IF n = 0 THEN 0 ELSE feesFold(list, n - 1) + list[n].feesPaid

totalStudents == Len(students)
totalFees == feesFold(students, Len(students))
hostelOccupancy ==
    Cardinality({ k \in 1..Len(students) : Truthy(students[k].hostel) })
occupancyByHostel == occupancyFold(students, Len(students))

-----------------------------------------------------------------------------
(* Inputs the model draws *)

NameValues == { << >>, ZaraKhan }
BranchValues == { << >>, Civil }
YearValues == { 1, 2 }
HostelValues == { << >>, HostelC, Constructor }

\* what the user can have typed into the amount box when Pay is clicked
PayValues == { << >>, <<"0">>, <<"5","0","0","0">>, <<"2","5","0","0">>,
               <<"-","5","0","0","0">> }

QueryValues == { << >>, <<"M","A","Y","A">>, <<"a"," ","c">>, <<"m","a","c">>,
                 <<"s"," ","i">>, <<"k","7">>, <<"z","z">> }

\* arguments of a direct call of an operation
CallIds == UidValues \cup { Unknown }
CallLabels == { HostelA, HostelB, Undefined }
CallAmounts == { <<"0">>, <<"5","0","0","0">>, <<"-","5","0","0","0">> }

Roles == { "Admin", "Staff", "Student" }
Tabs == { "dashboard", "students", "admissions", "hostel", "finance" }

-----------------------------------------------------------------------------
(* Initial state: the component's first render *)

Init ==
    \E i1, i2, i3 \in UidValues :
        /\ students = initialStudents(i1, i2, i3)
        /\ form = emptyForm
        /\ selectedStudentId = OrElse(i1, Null)     \* students[0]?.id || null
        /\ query = << >>
        /\ role = "Admin"
        /\ activeTab = "dashboard"
        /\ clock = 0
        /\ last = [op |-> "init", id |-> Null, arg |-> Null, alert |-> "",
                   before |-> initialStudents(i1, i2, i3)]
        /\ pair = [on |-> FALSE, before |-> << >>]
        /\ credited = <<0, 0, 0>>
        /\ nPays = 0

-----------------------------------------------------------------------------
(* History bookkeeping *)

Did(op, id, arg, alert) ==
    /\ last' = [op |-> op, id |-> id, arg |-> arg, alert |-> alert,
                before |-> students]
    /\ pair' = IF /\ op = "toggleHostel"
                  /\ last.op = "toggleHostel"
                  /\ last.id = id
                  /\ last.arg = arg
               THEN [on |-> TRUE, before |-> last.before]
               ELSE [on |-> FALSE, before |-> << >>]

\* the amounts the values of PayValues spell
AmountOf(value) ==
    CASE value = << >> -> 0
      [] value = <<"0">> -> 0
      [] value = <<"5","0","0","0">> -> 5000
      [] value = <<"2","5","0","0">> -> 2500
      [] value = <<"-","5","0","0","0">> -> 0 - 5000

\* a call of handlePayFees(id, amount) is booked on every record with that id
Credit(id, amount) ==
    /\ credited' = [k \in 1..Len(students) |->
                        IF students[k].id = id
                        THEN credited[k] + AmountOf(amount)
                        ELSE credited[k]]
    /\ nPays' = nPays + 1

-----------------------------------------------------------------------------
(* Environment *)

Tick ==
    /\ clock + 1 < Len(Dates)
    /\ clock' = clock + 1
    /\ UNCHANGED <<students, form, selectedStudentId, query, role, activeTab,
                   last, pair, credited, nPays>>

-----------------------------------------------------------------------------
(* Sidebar and top bar *)

SetActiveTab ==
    \E t \in Tabs :
        /\ activeTab' = t
        /\ UNCHANGED <<students, form, selectedStudentId, query, role, clock,
                       last, pair, credited, nPays>>

SetRole ==
    \E r \in Roles :
        /\ role' = r
        /\ UNCHANGED <<students, form, selectedStudentId, query, activeTab,
                       clock, last, pair, credited, nPays>>

SetQuery ==
    \E q \in QueryValues :
        /\ query' = q
        /\ UNCHANGED <<students, form, selectedStudentId, role, activeTab,
                       clock, last, pair, credited, nPays>>

-----------------------------------------------------------------------------
(* Admissions panel *)

SetFormName ==
    /\ activeTab = "admissions"
    /\ \E v \in NameValues : form' = [form EXCEPT !.name = v]
    /\ UNCHANGED <<students, selectedStudentId, query, role, activeTab, clock,
                   last, pair, credited, nPays>>

SetFormBranch ==
    /\ activeTab = "admissions"
    /\ \E v \in BranchValues : form' = [form EXCEPT !.branch = v]
    /\ UNCHANGED <<students, selectedStudentId, query, role, activeTab, clock,
                   last, pair, credited, nPays>>

\* the input hands out the year as text; no handler reads it, and the model
\* keeps the number it spells
SetFormYear ==
    /\ activeTab = "admissions"
    /\ \E v \in YearValues : form' = [form EXCEPT !.year = v]
    /\ UNCHANGED <<students, selectedStudentId, query, role, activeTab, clock,
                   last, pair, credited, nPays>>

SetFormHostel ==
    /\ activeTab = "admissions"
    /\ \E v \in HostelValues : form' = [form EXCEPT !.hostel = v]
    /\ UNCHANGED <<students, selectedStudentId, query, role, activeTab, clock,
                   last, pair, credited, nPays>>

ResetForm ==
    /\ activeTab = "admissions"
    /\ form' = emptyForm
    /\ UNCHANGED <<students, selectedStudentId, query, role, activeTab, clock,
                   last, pair, credited, nPays>>

AdmitRejected ==
    /\ activeTab = "admissions"
    /\ admitRejected(form)
    /\ Did("handleAdmit", Null, Null, "Name and branch required")
    /\ UNCHANGED <<students, form, selectedStudentId, query, role, activeTab,
                   clock, credited, nPays>>

AdmitAccepted ==
    /\ activeTab = "admissions"
    /\ ~admitRejected(form)
    /\ Len(students) < InitialCount + MaxAdmits
    /\ \E id \in UidValues :
        /\ students' = admitUpdater(students, newStudent(id, form, today))
        /\ Did("handleAdmit", id, Null, "")
    /\ form' = emptyForm
    /\ activeTab' = "students"
    /\ credited' = <<0>> \o credited
    /\ UNCHANGED <<selectedStudentId, query, role, clock, nPays>>

\* function handleAdmit(e)
handleAdmit == AdmitRejected \/ AdmitAccepted

-----------------------------------------------------------------------------
(* Students panel: one row per record of `filtered` *)

\* onClick={() => toggleHostel(s.id, 'A')}, rendered when role !== 'Student'
ToggleHostelAButton ==
    /\ activeTab = "students"
    /\ role # "Student"
    /\ \E k \in 1..Len(students) :
        /\ matches(students[k], query)
        /\ students' = toggleHostel(students, students[k].id, HostelA)
        /\ Did("toggleHostel", students[k].id, HostelA, "")
    /\ UNCHANGED <<form, selectedStudentId, query, role, activeTab, clock,
                   credited, nPays>>

\* onClick={() => { setSelectedStudentId(s.id); setActiveTab('finance'); }}
ReceiptButton ==
    /\ activeTab = "students"
    /\ \E k \in 1..Len(students) :
        /\ matches(students[k], query)
        /\ selectedStudentId' = students[k].id
    /\ activeTab' = "finance"
    /\ UNCHANGED <<students, form, query, role, clock, last, pair,
                   credited, nPays>>

-----------------------------------------------------------------------------
(* Hostel panel *)

\* onClick={() => toggleHostel(s.id, s.hostel)}, one per record with a hostel
ReleaseButton ==
    /\ activeTab = "hostel"
    /\ \E k \in 1..Len(students) :
        /\ Truthy(students[k].hostel)
        /\ students' = toggleHostel(students, students[k].id, students[k].hostel)
        /\ Did("toggleHostel", students[k].id, students[k].hostel, "")
    /\ UNCHANGED <<form, selectedStudentId, query, role, activeTab, clock,
                   credited, nPays>>

\* options that list every id uid() can give, in the roster or not
SelectOptionsOfAnyUid == { << >> } \cup UidValues

\* the options of both selects: "" and every record's id
SelectOptions == { << >> } \cup { students[k].id : k \in 1..Len(students) }

\* <select onChange={e => setSelectedStudentId(e.target.value)}>, app.jsx:317
HostelSelect ==
    /\ activeTab = "hostel"
    /\ \E v \in SelectOptions : selectedStudentId' = v
    /\ UNCHANGED <<students, form, query, role, activeTab, clock, last, pair,
                   credited, nPays>>

\* onClick={() => selectedStudentId && toggleHostel(selectedStudentId, 'A')}
\* and the same with 'B'; without a selection the click does nothing
AssignButton ==
    /\ activeTab = "hostel"
    /\ Truthy(selectedStudentId)
    /\ \E label \in { HostelA, HostelB } :
        /\ students' = toggleHostel(students, selectedStudentId, label)
        /\ Did("toggleHostel", selectedStudentId, label, "")
    /\ UNCHANGED <<form, selectedStudentId, query, role, activeTab, clock,
                   credited, nPays>>

-----------------------------------------------------------------------------
(* Finance panel *)

\* <select ... onChange={e => setSelectedStudentId(e.target.value)}>, app.jsx:337
FinanceSelect ==
    /\ activeTab = "finance"
    /\ \E v \in SelectOptions : selectedStudentId' = v
    /\ UNCHANGED <<students, form, query, role, activeTab, clock, last, pair,
                   credited, nPays>>

\* The Pay button is rendered when selectedStudentId is truthy and
\* students.find(...) gave the record whose name the panel prints.
PayButtonShown ==
    /\ activeTab = "finance"
    /\ Truthy(selectedStudentId)
    /\ find(students, selectedStudentId) # 0

\* const amt = document.getElementById('pay').value || 0; if (!amt) ...
\* amt is the number 0 exactly when the box is empty; every other value of
\* the box is a non-empty string, and a non-empty string ("0" too) is truthy.
payRejected(value) == Falsy(value)

PayRejected ==
    /\ PayButtonShown
    /\ \E value \in PayValues :
        /\ payRejected(value)
        /\ Did("payButton", students[find(students, selectedStudentId)].id,
               value, "Enter amount")
    /\ UNCHANGED <<students, form, selectedStudentId, query, role, activeTab,
                   clock, credited, nPays>>

PayAccepted ==
    /\ PayButtonShown
    /\ nPays < MaxPays
    /\ \E value \in PayValues :
        LET student == students[find(students, selectedStudentId)] IN
        /\ ~payRejected(value)
        /\ students' = handlePayFees(students, student.id, value)
        /\ Credit(student.id, value)
        /\ Did("payButton", student.id, value, "")
    /\ UNCHANGED <<form, selectedStudentId, query, role, activeTab, clock>>

PayButton == PayRejected \/ PayAccepted

-----------------------------------------------------------------------------
(* The operations called directly, with any arguments *)

CallPayFees ==
    /\ nPays < MaxPays
    /\ \E id \in CallIds, amount \in CallAmounts :
        /\ students' = handlePayFees(students, id, amount)
        /\ Credit(id, amount)
        /\ Did("handlePayFees", id, amount, "")
    /\ UNCHANGED <<form, selectedStudentId, query, role, activeTab, clock>>

CallToggleHostel ==
    /\ \E id \in CallIds, label \in CallLabels :
        /\ students' = toggleHostel(students, id, hostelNameOf(label))
        /\ Did("toggleHostel", id, hostelNameOf(label), "")
    /\ UNCHANGED <<form, selectedStudentId, query, role, activeTab, clock,
                   credited, nPays>>

-----------------------------------------------------------------------------
(* Specifications *)

Next ==
    \/ Tick
    \/ SetActiveTab
    \/ SetFormName
    \/ SetFormBranch
    \/ SetFormYear
    \/ SetFormHostel
    \/ ResetForm
    \/ AdmitRejected
    \/ AdmitAccepted
    \/ ToggleHostelAButton
    \/ ReceiptButton
    \/ ReleaseButton
    \/ HostelSelect
    \/ AssignButton
    \/ FinanceSelect
    \/ PayRejected
    \/ PayAccepted
    \/ CallPayFees
    \/ CallToggleHostel

Spec == Init /\ [][Next]_vars

(* Restrictions of Spec to the handlers one group of properties is about.   *)
(* Every behaviour of a restriction is a behaviour of Spec, so a state a    *)
(* restriction reaches is a state of the program.                           *)

NextAdmit ==
    \/ Tick
    \/ SetActiveTab
    \/ SetFormName
    \/ SetFormBranch
    \/ SetFormHostel
    \/ ResetForm
    \/ AdmitRejected
    \/ AdmitAccepted

SpecAdmit == Init /\ [][NextAdmit]_vars

NextPay ==
    \/ SetActiveTab
    \/ FinanceSelect
    \/ PayRejected
    \/ PayAccepted
    \/ CallPayFees

SpecPay == Init /\ [][NextPay]_vars

NextHostel ==
    \/ SetActiveTab
    \/ ToggleHostelAButton
    \/ ReleaseButton
    \/ HostelSelect
    \/ AssignButton
    \/ CallToggleHostel

SpecHostel == Init /\ [][NextHostel]_vars

NextCalls ==
    \/ CallPayFees
    \/ CallToggleHostel

SpecCalls == Init /\ [][NextCalls]_vars

NextSearch ==
    \/ SetQuery
    \/ SetActiveTab
    \/ SetFormName
    \/ SetFormBranch
    \/ AdmitAccepted

SpecSearch == Init /\ [][NextSearch]_vars

NextSelect ==
    \/ SetActiveTab
    \/ SetFormName
    \/ SetFormBranch
    \/ AdmitAccepted
    \/ ReceiptButton
    \/ HostelSelect
    \/ FinanceSelect
    \/ ReleaseButton

SpecSelect == Init /\ [][NextSelect]_vars

-----------------------------------------------------------------------------
(* Properties *)

\* the ids of the records of a roster
Ids(list) == { list[k].id : k \in 1..Len(list) }

\* alert() is the only way a handler reports a failure: none throws and none
\* returns a result
Failed(l) == l.alert # ""

PayOps == { "payButton", "handlePayFees" }

\* feesPaid a record was created with: the last InitialCount records are
\* initialStudents, an admitted record takes the form's feesPaid, which is 0
CreatedWithFees(k) ==
    LET j == k - (Len(students) - InitialCount) IN
    IF j >= 1 THEN initialStudents(<< >>, << >>, << >>)[j].feesPaid ELSE 0

\* C1: every record's feesPaid is what it was created with plus the sum of
\* the amounts of all payments applied to its id, and a payment that went
\* through added its amount to the feesPaid of the records with that id and
\* changed no other record, no other field and not the order.
C1_FeesPaidIsSumOfPayments ==
    /\ \A k \in 1..Len(students) :
          students[k].feesPaid = CreatedWithFees(k) + credited[k]
    /\ (last.op \in PayOps /\ ~Failed(last)) =>
          /\ Len(students) = Len(last.before)
          /\ \A k \in 1..Len(students) :
                students[k] =
                    IF last.before[k].id = last.id
                    THEN [last.before[k] EXCEPT
                             !.feesPaid = @ + AmountOf(last.arg)]
                    ELSE last.before[k]

\* two payments, 5000 and 2500, have been applied to one record
C1_Witness ==
    /\ nPays = 2
    /\ last.op \in PayOps
    /\ \E k \in 1..Len(students) :
          /\ students[k].id = last.id
          /\ credited[k] = 7500
          /\ students[k].feesPaid = CreatedWithFees(k) + 7500
    /\ \E k \in 1..Len(students) :
          students[k].id # last.id /\ students[k] = last.before[k]

\* C2: a payment whose amount is zero or negative is rejected: it is not
\* applied, so that the whole roster, the target's feesPaid included, is as
\* it was before. Stated for the whole payment path, the Pay button's
\* handler followed by handlePayFees. (The report of the rejection is left
\* aside: the Pay handler alerts for the empty box alone.)
C2_NonPositiveAmountRejected ==
    (last.op = "payButton" /\ AmountOf(last.arg) <= 0) =>
        students = last.before

\* C3: from one state to the next every record stays in the roster with its
\* id and its admissionDate, and its feesPaid does not decrease. The records
\* the last handler found are the last Len(last.before) records now.
C3_RecordsStayAndFeesNeverDecrease ==
    /\ Len(students) >= Len(last.before)
    /\ LET d == Len(students) - Len(last.before) IN
       \A k \in 1..Len(last.before) :
          /\ students[k + d].id = last.before[k].id
          /\ students[k + d].admissionDate = last.before[k].admissionDate
          /\ students[k + d].feesPaid >= last.before[k].feesPaid

NoTwoShareAnId(list) ==
    \A j, k \in 1..Len(list) : j # k => list[j].id # list[k].id

\* C4: no two records of the roster have the same id, admit giving the new
\* record an id that no record already in the roster has; for the rosters
\* whose three initial records drew different ids.
C4_IdsAreUnique ==
    NoTwoShareAnId(SubSeq(students, Len(students) - InitialCount + 1,
                          Len(students)))
        => NoTwoShareAnId(students)

AdmitRan == last' # last /\ last'.op = "handleAdmit"

\* C5: an admission that goes through (name and branch non-empty) puts one
\* new record at the front: the generated id, the form's name, branch and
\* year, admissionDate the current date, feesPaid 0, hostel absent when the
\* form has none; the records present before follow it, unchanged and in
\* their order, and the roster is one longer.
C5_AdmitPrependsNewRecord ==
    [][ (AdmitRan /\ ~Failed(last')) =>
            /\ Truthy(form.name) /\ Truthy(form.branch)
            /\ Len(students') = Len(students) + 1
            /\ Tail(students') = students
            /\ students'[1].id = last'.id
            /\ students'[1].id \in UidValues
            /\ students'[1].name = form.name
            /\ students'[1].branch = form.branch
            /\ students'[1].year = form.year
            /\ students'[1].admissionDate = Dates[clock + 1]
            /\ students'[1].feesPaid = 0
            /\ (form.hostel = << >> => Falsy(students'[1].hostel))
            /\ (form.hostel # << >> => students'[1].hostel = form.hostel)
      ]_vars

\* Zara Khan has been admitted without a hostel on the second day
C5_Witness ==
    /\ last.op = "handleAdmit"
    /\ ~Failed(last)
    /\ Len(students) = InitialCount + 1
    /\ Tail(students) = last.before
    /\ students[1].name = ZaraKhan
    /\ students[1].hostel = << >>
    /\ students[1].admissionDate = Dates[2]

\* C6: an admission with an empty name or an empty branch fails, the failure
\* is reported, and the roster stays as it was.
C6_AdmitWithoutNameOrBranchFails ==
    [][ (AdmitRan /\ (form.name = << >> \/ form.branch = << >>)) =>
            (Failed(last') /\ students' = students)
      ]_vars

\* the form held a name and no branch when it was submitted
C6_Witness ==
    /\ last.op = "handleAdmit"
    /\ last.alert = "Name and branch required"
    /\ form.name = ZaraKhan
    /\ form.branch = << >>
    /\ students = last.before

CalledWithUnknownId ==
    /\ last.op \in { "handlePayFees", "toggleHostel" }
    /\ last.id \notin Ids(last.before)

HostelLabels == { HostelA, HostelB, HostelC }

\* C8: toggleHostel(id, label) clears the hostel of the records with that id
\* that hold label and sets it to label on those that do not, whatever they
\* held; it changes no other record and no other field; and in every state
\* a record's hostel is absent or one label.
C8_ToggleSetsOrClears ==
    /\ \A k \in 1..Len(students) :
          Falsy(students[k].hostel) \/ students[k].hostel \in HostelLabels
    /\ last.op = "toggleHostel" =>
          /\ Len(students) = Len(last.before)
          /\ \A k \in 1..Len(students) :
                students[k] =
                    IF last.before[k].id = last.id
                    THEN [last.before[k] EXCEPT
                             !.hostel = IF @ = last.arg THEN Null ELSE last.arg]
                    ELSE last.before[k]

\* a record held B and toggleHostel(id, "A") moved it to A
C8_Witness ==
    /\ last.op = "toggleHostel"
    /\ last.arg = HostelA
    /\ \E k \in 1..Len(students) :
          /\ last.before[k].id = last.id
          /\ last.before[k].hostel = HostelB
          /\ students[k].hostel = HostelA
    /\ \E k \in 1..Len(students) :
          last.before[k].id # last.id /\ students[k] = last.before[k]

\* the same absent/assigned state: both absent, or the same label
SameHostelState(a, b) == (Falsy(a) /\ Falsy(b)) \/ a = b

\* C9 as claimed: after toggleHostel(id, L) twice in a row every record with
\* that id has the hostel it had before the two calls, whatever that was.
C9_TwoTogglesRestoreHostel ==
    pair.on =>
        \A k \in 1..Len(students) :
            pair.before[k].id = last.id =>
                SameHostelState(students[k].hostel, pair.before[k].hostel)

\* C9 as amended: after toggleHostel(id, L) twice in a row a record with
\* that id that had no hostel has none, one that held L holds L, and one
\* that held another label has none.
C9_TwoTogglesRestoreAbsentOrSameLabel ==
    pair.on =>
        \A k \in 1..Len(students) :
            pair.before[k].id = last.id =>
                IF pair.before[k].hostel = last.arg
                THEN students[k].hostel = last.arg
                ELSE students[k].hostel = Null

\* toggleHostel(id, "A") ran twice on a record without a hostel
C9_Witness ==
    /\ pair.on
    /\ last.arg = HostelA
    /\ \E k \in 1..Len(students) :
          /\ pair.before[k].id = last.id
          /\ pair.before[k].hostel = Null
          /\ last.before[k].hostel = HostelA
          /\ students[k].hostel = Null

\* two characters that are the same letter up to case, or the same character
SameCharacter(a, b) ==
    \/ a = b
    \/ \E n \in 1..26 : {a, b} = {UpperCase[n], LowerCase[n]}

\* needle is a substring of hay, compared case-insensitively
ContainsIgnoringCase(hay, needle) ==
    \E at \in 0..(Len(hay) - Len(needle)) :
        \A n \in 1..Len(needle) : SameCharacter(hay[at + n], needle[n])

InConcatenation(s) == ContainsIgnoringCase(s.name \o s.branch \o s.id, query)

InSpaceSeparated(s) ==
    ContainsIgnoringCase(s.name \o <<" ">> \o s.branch \o <<" ">> \o s.id,
                         query)

\* C10 as claimed: filtered is, in roster order, exactly the records whose
\* name, branch and id, concatenated, contain the query as a substring
\* compared case-insensitively; the empty query yields the whole roster.
C10_FilteredIsMatchesOfConcatenation ==
    /\ filtered = SelectSeq(students, InConcatenation)
    /\ query = << >> => filtered = students

\* C10 as amended: filtered is, in roster order, exactly the records whose
\* name, branch and id, joined by single spaces, contain the query as a
\* substring compared case-insensitively; the empty query yields the whole
\* roster.
C10_FilteredIsMatchesOfSpaceSeparated ==
    /\ filtered = SelectSeq(students, InSpaceSeparated)
    /\ query = << >> => filtered = students

\* the query MAYA finds Maya Nair alone, behind an admitted record
C10_Witness ==
    /\ query = <<"M","A","Y","A">>
    /\ Len(students) = InitialCount + 1
    /\ filtered = << students[Len(students)] >>

\* the labels that at least one record of the roster holds
HeldLabels ==
    { students[k].hostel : k \in { j \in 1..Len(students) :
                                        Truthy(students[j].hostel) } }

\* the sum of the values of occupancyByHostel under the keys of `keys`
RECURSIVE SumOfCounts(_)
SumOfCounts(keys) ==
    IF keys = { } THEN 0
    ELSE LET key == CHOOSE k \in keys : TRUE
         IN  occupancyByHostel[key].n + SumOfCounts(keys \ { key })

\* the sum of feesPaid over the records of a roster
RECURSIVE SumOfFeesPaid(_)
SumOfFeesPaid(list) ==
    IF Len(list) = 0 THEN 0
    ELSE Head(list).feesPaid + SumOfFeesPaid(Tail(list))

\* C11: in every state the values of occupancyByHostel are counts that sum
\* to hostelOccupancy, its keys are exactly the hostel labels that at least
\* one record holds, totalStudents is the number of records and totalFees is
\* the sum of feesPaid over all the records.
C11_MetricsAgreeWithRoster ==
    /\ \A key \in DOMAIN occupancyByHostel :
            occupancyByHostel[key].kind = "number"
    /\ SumOfCounts(DOMAIN occupancyByHostel) = hostelOccupancy
    /\ DOMAIN occupancyByHostel = HeldLabels
    /\ totalStudents = Cardinality(DOMAIN students)
    /\ totalFees = SumOfFeesPaid(students)

\* C12: in every state selectedStudentId is empty (null or "") or the id of
\* a record of the roster, so that whenever it is not empty the lookup
\* students.find(s => s.id === selectedStudentId) of the finance panel gives
\* a record; after any admissions, payments, hostel toggles and selections.
C12_SelectionIsInRoster ==
    /\ Falsy(selectedStudentId) \/ selectedStudentId \in Ids(students)
    /\ Truthy(selectedStudentId) => find(students, selectedStudentId) # 0

\* the finance panel shows the record admitted after the initial three: it
\* is the selection, no other record has its id, and a hostel was released
\* after the admission
C12_Witness ==
    /\ Len(students) = InitialCount + 1
    /\ Truthy(selectedStudentId)
    /\ students[1].id = selectedStudentId
    /\ selectedStudentId \notin Ids(Tail(students))
    /\ last.op = "toggleHostel"
    /\ Len(last.before) = InitialCount + 1
    /\ activeTab = "finance"

=============================================================================
